---- MODULE Spec2Model ----
(***************************************************************************)
(* A model of the ingestion-and-deduplication pipeline of the AI news bot: *)
(* the RSS collector (src/src/collectors), the SQLite storage              *)
(* (src/src/database/models.py) and the collection cycle of                *)
(* AINewsBot.collect_news (src/main.py).                                   *)
(*                                                                         *)
(* Time is counted in whole hours.  now is the UTC clock; the host's local *)
(* wall clock, which datetime.now() reads, is now + tz.  SQLite's          *)
(* datetime('now', ...) reads the UTC clock.                               *)
(***************************************************************************)
EXTENDS Integers, Sequences, FiniteSets, TLC

VARIABLES
    now,               \* the UTC clock, in hours
    tz,                \* the host's UTC offset, in hours
    filtering_config,  \* config['filtering']
    articles,          \* table articles: a set of rows, url UNIQUE
    nextArticleId,     \* AUTOINCREMENT counter of table articles
    sources,           \* table sources: a set of rows, name UNIQUE
    nextSourceId,      \* AUTOINCREMENT counter of table sources
    collection_logs,   \* table collection_logs: rows in insertion order
    cycles,            \* number of collect_news calls made so far
    last,              \* what the last collect_news call did (history)
    procs,             \* the collect_news calls in progress, one per thread
    probe,             \* the last article given to the filter, and the verdict
    fetcher,           \* the call of _make_request in progress
    scheduler,         \* setup_scheduler's loop, its locals, the jobs added
    socket             \* the socket-mode requests handled, and their responses

vars == <<now, tz, filtering_config, articles, nextArticleId, sources,
          nextSourceId, collection_logs, cycles, last, procs, probe, fetcher,
          scheduler, socket>>

---------------------------------------------------------------------------
(* Bounds of the model *)

MaxCycles == 2
MaxEntries == 2
MaxFaults == 1
MaxRetryAttempts == 3

(* Program constants *)

WindowADays == 1
RecentLimit == 5
WindowBDays == 2
DefaultMinArticleLength == 100
DefaultMaxArticleAgeDays == 7

HoursOf(days) == days * 24

(* The host offsets explored: US Pacific, UTC, Japan. *)
TZOffsets == {-8, 0, 9}

(* The instants at which the clock is read. *)
ClockPoints == {0, 2, 23, 25, 47, 49}

---------------------------------------------------------------------------
(* Text.  A title is a base text in one of four written forms:             *)
(*   plain   the text itself                                               *)
(*   padded  the text with leading/trailing whitespace                     *)
(*   wide    the text in full-width (compatibility) characters             *)
(*   boiler  the text followed by a denylisted phrase ("Read more")        *)
(* text = "" with form boiler is a title made of the phrase alone.         *)

Title(text, form) == [text |-> text, form |-> form]

EmptyTitle == Title("", "plain")

(* Python truthiness of the raw string: only "" is false. *)
RawNonEmpty(t) == ~(t.text = "" /\ t.form = "plain")

(* _normalize_title: strip, then NFKC.  The denylist is not applied. *)
NormalizeTitle(t) ==
    IF ~RawNonEmpty(t) THEN EmptyTitle
    ELSE IF t.form \in {"padded", "wide"} THEN Title(t.text, "plain")
    ELSE t

(* _clean_text: collapse whitespace, remove the denylisted phrases, strip. *)
(* Full-width characters are kept.                                         *)
CleanText(t) ==
    IF t.form \in {"padded", "boiler"} THEN Title(t.text, "plain") ELSE t

---------------------------------------------------------------------------
(* Timestamps.  A datetime is its wall-clock reading in hours, and, when   *)
(* zone-aware, its UTC offset.  None is NoDate.                            *)

NoDate == [present |-> FALSE, wall |-> 0, aware |-> FALSE, off |-> 0]
Naive(wall) == [present |-> TRUE, wall |-> wall, aware |-> FALSE, off |-> 0]
Aware(wall, off) == [present |-> TRUE, wall |-> wall, aware |-> TRUE, off |-> off]

(* datetime.now(): the host's local wall clock, zone-naive. *)
DatetimeNow(nowUtc, tzv) == Naive(nowUtc + tzv)

(* pytz.UTC.localize(d): the same wall-clock reading, labelled UTC. *)
LocalizeUTC(d) == Aware(d.wall, 0)

(* a - b for two datetimes of the same awareness, in hours. *)
Minus(a, b) == (a.wall - a.off) - (b.wall - b.off)

(* The value of a singleton set: binds a computed value to a name. *)
Only(S) == CHOOSE v \in S : TRUE

(* timedelta.days: whole days, rounded towards minus infinity. *)
TimedeltaDays(hours) == hours \div 24

---------------------------------------------------------------------------
(* Storage: DatabaseManager.                                               *)
(*                                                                         *)
(* An article is [id, title, url, content, summary, source,                *)
(* published_date, collected_date]; content is abstracted to its length    *)
(* after cleaning and to                                                   *)
(* the set of (lower-cased) keywords that title+content holds.  id = 0     *)
(* stands for None (not yet stored).                                       *)

Content(len, words) == [len |-> len, words |-> words]

(* The URLs of the model and urlparse(url).netloc.lower(), as the sequence *)
(* of the host's labels.                                                   *)
UrlA1 == "https://a.example/1"
UrlA2 == "https://a.example/2"
UrlB3 == "https://b.example/3"
UrlB4 == "https://b.example/4"
UrlC5 == "https://c.example/5"

Netloc(url) ==
    IF url \in {UrlA1, UrlA2} THEN <<"a", "example">>
    ELSE IF url \in {UrlB3, UrlB4} THEN <<"b", "example">>
    ELSE IF url = UrlC5 THEN <<"c", "example">>
    ELSE <<>>

(* A summary is known by where its text comes from (the service, the       *)
(* article's content, the article's title) and by whether it is empty.     *)
NoSummary == [by |-> "none", empty |-> TRUE]

(* INSERT OR REPLACE INTO articles: a row with the same url is deleted,    *)
(* then the new row is inserted under a fresh AUTOINCREMENT id.            *)
save_article(arts, nextId, article) ==
    [articles |-> {r \in arts : r.url # article.url}
                    \cup {[article EXCEPT !.id = nextId]},
     nextArticleId |-> nextId + 1]

get_article_by_url(arts, url) == {r \in arts : r.url = url}

get_article_by_title(arts, title) == {r \in arts : r.title = title}

(* The articles table after a DROP TABLE and CREATE TABLE. *)
init_database_recreating(arts) == {}

(* DatabaseManager(db_path) runs init_database: CREATE TABLE IF NOT EXISTS *)
(* keeps the rows of a table that exists.                                  *)
init_database(arts) == arts

(* INSERT OR REPLACE INTO sources: as for articles, keyed on name. *)
save_source(srcs, nextId, source) ==
    [sources |-> {r \in srcs : r.name # source.name}
                   \cup {[source EXCEPT !.id = nextId]},
     nextSourceId |-> nextId + 1]

RECURSIVE SortById(_)
SortById(S) ==
    IF S = {} THEN <<>>
    ELSE LET m == CHOOSE r \in S : \A q \in S : r.id <= q.id
         IN  <<m>> \o SortById(S \ {m})

(* SELECT * FROM sources WHERE enabled = 1, in rowid order. *)
get_sources(srcs) == SortById({r \in srcs : r.enabled})

(* INSERT INTO collection_logs. *)
save_collection_log(logs, log) == Append(logs, [log EXCEPT !.id = Len(logs) + 1])

(* CollectionLog(source_id=...): the dataclass defaults. *)
CollectionLog(source_id) ==
    [id |-> 0, source_id |-> source_id, articles_found |-> 0,
     articles_processed |-> 0, articles_new |-> 0, errors |-> <<>>,
     status |-> "success"]

---------------------------------------------------------------------------
(* The filter engine: BaseCollector._should_include_article.               *)

(* now as datetime.now() returned it, whatever the published date is. *)
CoerceNowNot(n, pub) == n

(* Lines 111-121: now is given the awareness of the published date. *)
CoerceNow(n, pub) ==
    IF pub.aware THEN (IF ~n.aware THEN LocalizeUTC(n) ELSE n)
    ELSE IF n.aware THEN Naive(n.wall) ELSE n

(* Python raises TypeError when a zone-naive and a zone-aware datetime are *)
(* subtracted.                                                             *)
SubtractionRaises(a, b) == a.aware # b.aware

(* The two operands of now - pub_date (line 123). *)
AgeOperands(pub, nowUtc, tzv) ==
    [now |-> CoerceNow(DatetimeNow(nowUtc, tzv), pub), pub |-> pub]

(* now - published_date after the coercion of lines 111-121. *)
ArticleAge(pub, nowUtc, tzv) ==
    Minus(AgeOperands(pub, nowUtc, tzv).now, AgeOperands(pub, nowUtc, tzv).pub)

LengthCheckExclusive(article, cfg) ==
    ~(article.content.len <= cfg.min_article_length)

LengthCheck(article, cfg) == ~(article.content.len < cfg.min_article_length)

AgeCheck(article, cfg, nowUtc, tzv) ==
    article.published_date.present =>
        ~(TimedeltaDays(ArticleAge(article.published_date, nowUtc, tzv))
              > cfg.max_article_age_days)

(* "blocked in domain": a blocked pattern is a label of the host. *)
BlockedCheck(article, cfg) ==
    ~(\E b \in cfg.blocked_domains :
         \E i \in 1..Len(Netloc(article.url)) : Netloc(article.url)[i] = b)

(* str.lower() on the words the model writes in capitals. *)
Lower(w) == IF w = "AI" THEN "ai" ELSE w

(* The keywords (in lower case) that occur in a title's text. *)
TitleWords(title) == IF title.text = "AI Weekly" THEN {"ai"} ELSE {}

(* (article.title + ' ' + article.content).lower() as the words in it. *)
TitleAndContent(article) ==
    {Lower(w) : w \in article.content.words} \cup TitleWords(article.title)

KeywordCheck(article, cfg) ==
    cfg.required_keywords # {} =>
        \E keyword \in cfg.required_keywords :
            Lower(keyword) \in TitleAndContent(article)

_should_include_article(article, cfg, nowUtc, tzv) ==
    /\ LengthCheck(article, cfg)
    /\ AgeCheck(article, cfg, nowUtc, tzv)
    /\ BlockedCheck(article, cfg)
    /\ KeywordCheck(article, cfg)

_filter_articles(list, cfg, nowUtc, tzv) ==
    SelectSeq(list, LAMBDA a : _should_include_article(a, cfg, nowUtc, tzv))

---------------------------------------------------------------------------
(* The RSS collector.  A feed entry is [link, title, content, published].  *)

(* raises marks a malformed entry: processing it raises an exception.      *)
Entry(link, title, content, published) ==
    [link |-> link, title |-> title, content |-> content,
     published |-> published, raises |-> FALSE]

(* _get_recent_articles_data: the two windowed queries.  collected_date is *)
(* compared, as text, with SQLite's UTC clock.  A failing lookup gives     *)
(* empty sets.                                                             *)
InWindow(row, days, nowUtc) == row.collected_date.wall >= nowUtc - HoursOf(days)

_get_recent_articles_data(arts, source, nowUtc, lookupOk) ==
    IF ~lookupOk THEN [urls |-> {}, titles |-> {}]
    ELSE [urls |-> {r.url : r \in {x \in arts :
                        InWindow(x, WindowADays, nowUtc) /\ x.source = source.name}},
          titles |-> {NormalizeTitle(r.title) : r \in {x \in arts :
                        InWindow(x, WindowBDays, nowUtc) /\ x.source = source.name}}]

(* _create_article via _process_entry: the title is cleaned, the tags are   *)
(* the source's, collected_date is datetime.now().                          *)
_process_entry(entry, source, nowUtc, tzv) ==
    [id |-> 0, title |-> CleanText(entry.title), url |-> entry.link,
     content |-> entry.content, summary |-> NoSummary, source |-> source.name,
     tags |-> source.tags, published_date |-> entry.published,
     collected_date |-> DatetimeNow(nowUtc, tzv)]

(* _should_process_article: the keyword allow-list of Japanese sources. *)
_should_process_article(article, source) ==
    (source.language = "japanese" /\ source.filter_keywords # {}) =>
        article.content.words \cap source.filter_keywords # {}

(* The loop's body, were an entry processed before the two checks. *)
EntryFateProcessFirst(entry, recent, source) ==
    IF ~RawNonEmpty(entry.title) \/ entry.link = "" THEN "dropped"
    ELSE IF entry.raises THEN "failed"
    ELSE IF ~_should_process_article([content |-> entry.content], source)
         THEN "source_filtered"
    ELSE IF entry.link \in recent.urls THEN "url_skipped"
    ELSE IF NormalizeTitle(entry.title) \in recent.titles THEN "title_skipped"
    ELSE "collected"

(* What the loop of collect_articles does with one entry.  An exception    *)
(* raised while the entry is processed is caught in the loop (lines 66-68) *)
(* and the loop continues.                                                 *)
EntryFate(entry, recent, source) ==
    IF entry.link \in recent.urls THEN "url_skipped"
    ELSE IF NormalizeTitle(entry.title) \in recent.titles THEN "title_skipped"
    ELSE IF ~RawNonEmpty(entry.title) \/ entry.link = "" THEN "dropped"
    ELSE IF entry.raises THEN "failed"
    ELSE IF ~_should_process_article([content |-> entry.content], source)
         THEN "source_filtered"
    ELSE "collected"

Fates(feed, recent, source) ==
    [i \in 1..Len(feed) |-> EntryFate(feed[i], recent, source)]

RECURSIVE CollectedFrom(_, _, _, _, _, _)
CollectedFrom(feed, fates, i, source, nowUtc, tzv) ==
    IF i > Len(feed) THEN <<>>
    ELSE (IF fates[i] = "collected"
          THEN <<_process_entry(feed[i], source, nowUtc, tzv)>> ELSE <<>>)
         \o CollectedFrom(feed, fates, i + 1, source, nowUtc, tzv)

(* feedparser.parse: a transport failure yields no entries (bozo). *)
FeedEntries(env) == IF env.fetch = "ok" THEN env.feed ELSE <<>>

(* The fates, were an entry's exception to leave the loop for the outer    *)
(* except clause.                                                          *)
CollectorFatesAborting(arts, source, env, nowUtc) ==
    IF ~env.storageOpens
       \/ \E i \in 1..Len(FeedEntries(env)) : FeedEntries(env)[i].raises
    THEN [i \in 1..Len(FeedEntries(env)) |-> "abandoned"]
    ELSE Fates(FeedEntries(env),
               _get_recent_articles_data(arts, source, nowUtc, env.lookupOk),
               source)

(* The fates of the payload's entries.  DatabaseManager(db_path) (line 36) *)
(* is constructed outside the lookup's try: when the storage cannot be     *)
(* opened the outer except clause abandons the whole payload.              *)
CollectorFates(arts, source, env, nowUtc) ==
    IF ~env.storageOpens THEN [i \in 1..Len(FeedEntries(env)) |-> "abandoned"]
    ELSE Fates(FeedEntries(env),
               _get_recent_articles_data(arts, source, nowUtc, env.lookupOk),
               source)

collect_articles(arts, source, env, nowUtc, tzv) ==
    CollectedFrom(FeedEntries(env), CollectorFates(arts, source, env, nowUtc), 1,
                  source, nowUtc, tzv)

(* collect_with_logging: [log, articles].  env.filterRaises stands for an  *)
(* exception escaping the try block (raised while filtering an article).   *)
LogOf(source, env, found, filtered) ==
    IF env.filterRaises /\ Len(found) > 0
    THEN [log |-> [CollectionLog(source.id) EXCEPT
                      !.errors = <<"Collection failed">>, !.status = "failed"],
          articles |-> <<>>]
    ELSE [log |-> [CollectionLog(source.id) EXCEPT
                      !.articles_found = Len(found),
                      !.articles_processed = Len(filtered),
                      !.status = "success"],
          articles |-> filtered]

collect_with_logging(arts, source, env, cfg, nowUtc, tzv) ==
    Only({LogOf(source, env, found, _filter_articles(found, cfg, nowUtc, tzv)) :
          found \in {collect_articles(arts, source, env, nowUtc, tzv)}})

---------------------------------------------------------------------------
(* The collection cycle: AINewsBot.collect_news.                           *)
(*                                                                         *)
(* What the world does to one source's run is its environment env:         *)
(*   feed              the payload the feed serves                         *)
(*   fetch             "ok", or "error" for a transport-level failure      *)
(*   lookupOk          whether the duplicate lookup can query the storage  *)
(*   storageOpens      whether the collector can open the storage          *)
(*   filterRaises      an exception escapes collect_with_logging's try     *)
(*   constructRaises   RSSCollector(...) raises                            *)
(*   logSaveRaises     save_collection_log raises                          *)
(*   articleSaveRaises save_article raises                                 *)
(*   sourceSaveRaises  save_source raises                                  *)
(*   summarizerUp      whether the summarization service answers           *)
(*   taggerUp          whether the tag-suggestion service answers          *)

Env(feed) ==
    [feed |-> feed, fetch |-> "ok", lookupOk |-> TRUE, filterRaises |-> FALSE,
     constructRaises |-> FALSE, logSaveRaises |-> FALSE,
     articleSaveRaises |-> FALSE, sourceSaveRaises |-> FALSE,
     summarizerUp |-> TRUE, storageOpens |-> TRUE, taggerUp |-> TRUE]

(* _generate_fallback_summary: the first sentences of the content, or the  *)
(* title when that is empty.                                               *)
_generate_fallback_summary(article) ==
    IF article.content.len > 0 THEN [by |-> "content", empty |-> FALSE]
    ELSE [by |-> "title", empty |-> ~RawNonEmpty(article.title)]

(* summarize_article never raises: the service's text, or the fallback. *)
summarize_article(article, env) ==
    IF env.summarizerUp THEN [by |-> "service", empty |-> FALSE]
    ELSE _generate_fallback_summary(article)

(* _generate_fallback_tags: two fixed tags and the source's name in lower  *)
(* case with hyphens (and the article's language, which is never empty).   *)
_generate_fallback_tags(article) ==
    {"ai", "artificial intelligence",
     IF article.source = "Feed A" THEN "feed-a"
     ELSE IF article.source = "Feed B" THEN "feed-b"
     ELSE IF article.source = "Feed C" THEN "feed-c" ELSE "site-c"}

(* generate_tags never raises: the service's tags, or the fallback. *)
generate_tags(article, env) ==
    IF env.taggerUp THEN {"llm"} ELSE _generate_fallback_tags(article)

(* Lines 114-128: the summary and the tags of a new article. *)
Enriched(article, env) ==
    [article EXCEPT !.summary = summarize_article(article, env),
                    !.tags = @ \cup generate_tags(article, env)]

(* The storage as one value, threaded through the cycle. *)
Db(a, na, s, ns, l) ==
    [articles |-> a, nextArticleId |-> na, sources |-> s, nextSourceId |-> ns,
     collection_logs |-> l]

(* The two existence checks made before an article is processed. *)
AlreadyStoredById(arts, article) == {r \in arts : r.id = article.id} # {}

AlreadyStored(arts, article) ==
    \/ get_article_by_url(arts, article.url) # {}
    \/ get_article_by_title(arts, article.title) # {}

(* The loop over the collected articles (lines 98-138). *)
SavedInto(db, article) ==
    Only({[db EXCEPT !.articles = saved.articles,
                     !.nextArticleId = saved.nextArticleId] :
          saved \in {save_article(db.articles, db.nextArticleId, article)}})

RECURSIVE ProcessArticles(_, _, _, _, _)
ProcessArticles(db, list, i, env, new_articles) ==
    IF i > Len(list) THEN [db |-> db, new_articles |-> new_articles]
    ELSE IF AlreadyStored(db.articles, list[i]) \/ env.articleSaveRaises
    THEN ProcessArticles(db, list, i + 1, env, new_articles)
    ELSE Only({ProcessArticles(next.db, list, i + 1, env, next.new_articles) :
               next \in {Only({[db |-> SavedInto(db, article),
                                new_articles |-> Append(new_articles, article)] :
                               article \in {Enriched(list[i], env)}})}})

(* The source's statistics after its run (lines 147-152). *)
UpdatedSource(source, log, nowUtc, tzv) ==
    [source EXCEPT !.last_collected = DatetimeNow(nowUtc, tzv),
                   !.collection_count = @ + 1,
                   !.error_count = IF log.status = "failed" THEN @ + 1 ELSE 0]

(* One iteration of the loop over the sources (lines 76-160): the storage  *)
(* after it, and the record of what happened.  outcome is                  *)
(*   "unsupported"  the source type has no collector: continue             *)
(*   "raised"       an exception reached the except clause: continue       *)
(*   "completed"    the iteration ran to its end                           *)
RunRecord(db, source, env) ==
    [source |-> source, env |-> env, before |-> db.articles,
     outcome |-> "raised", fates |-> <<>>, log |-> CollectionLog(source.id),
     returned |-> <<>>, collected |-> FALSE, logSaved |-> FALSE,
     new_articles |-> <<>>]

(* Lines 146-156, after the loop over the articles. *)
FinishSource(pr, source, log, env, run, nowUtc, tzv) ==
    IF env.sourceSaveRaises
    THEN [db |-> pr.db, run |-> [run EXCEPT !.logSaved = TRUE,
                                            !.new_articles = pr.new_articles]]
    ELSE Only({[db |-> [pr.db EXCEPT !.sources = ss.sources,
                                     !.nextSourceId = ss.nextSourceId],
                run |-> [run EXCEPT !.logSaved = TRUE,
                                    !.new_articles = pr.new_articles,
                                    !.outcome = "completed"]] :
               ss \in {save_source(pr.db.sources, pr.db.nextSourceId,
                                   UpdatedSource(source, log, nowUtc, tzv))}})

(* Lines 90-156, after collect_with_logging returned res. *)
StoreRun(db, source, env, res, run, nowUtc, tzv) ==
    IF env.logSaveRaises THEN [db |-> db, run |-> run]
    ELSE Only({FinishSource(pr, source, res.log, env, run, nowUtc, tzv) :
               pr \in {ProcessArticles(
                          [db EXCEPT !.collection_logs =
                                         save_collection_log(@, res.log)],
                          res.articles, 1, env, <<>>)}})

RunSource(db, source, env, cfg, nowUtc, tzv) ==
    IF source.source_type # "rss"
    THEN [db |-> db,
          run |-> [RunRecord(db, source, env) EXCEPT !.outcome = "unsupported"]]
    ELSE IF env.constructRaises
    THEN [db |-> db, run |-> RunRecord(db, source, env)]
    ELSE Only({StoreRun(IF env.storageOpens
                        THEN [db EXCEPT !.articles = init_database(@)] ELSE db,
                        source, env, res,
                        [RunRecord(db, source, env) EXCEPT
                            !.collected = TRUE,
                            !.fates = CollectorFates(db.articles, source, env,
                                                     nowUtc),
                            !.log = res.log,
                            !.returned = res.articles],
                        nowUtc, tzv) :
               res \in {collect_with_logging(db.articles, source, env, cfg,
                                             nowUtc, tzv)}})

(* The loop over the sources, were an exception to leave it. *)
RECURSIVE RunSourcesAborting(_, _, _, _, _, _, _, _)
RunSourcesAborting(db, list, i, envOf, cfg, nowUtc, tzv, runs) ==
    IF i > Len(list) \/ (runs # <<>> /\ runs[Len(runs)].outcome = "raised")
    THEN [db |-> db, runs |-> runs]
    ELSE Only({RunSourcesAborting(next.db, list, i + 1, envOf, cfg, nowUtc, tzv,
                                  next.runs) :
               next \in {Only({[db |-> r.db, runs |-> Append(runs, r.run)] :
                               r \in {RunSource(db, list[i], envOf[list[i].name],
                                                cfg, nowUtc, tzv)}})}})

(* The loop over the sources (lines 76-160): an exception ends the         *)
(* iteration, never the loop.                                              *)
RECURSIVE RunSources(_, _, _, _, _, _, _, _)
RunSources(db, list, i, envOf, cfg, nowUtc, tzv, runs) ==
    IF i > Len(list) THEN [db |-> db, runs |-> runs]
    ELSE Only({RunSources(next.db, list, i + 1, envOf, cfg, nowUtc, tzv, next.runs) :
               next \in {Only({[db |-> r.db, runs |-> Append(runs, r.run)] :
                               r \in {RunSource(db, list[i], envOf[list[i].name],
                                                cfg, nowUtc, tzv)}})}})

RECURSIVE TotalNew(_)
TotalNew(runs) ==
    IF runs = <<>> THEN 0 ELSE Len(Head(runs).new_articles) + TotalNew(Tail(runs))

NoLanguage == ""

(* The sources a call selects (lines 62-68). *)
SelectedSources(srcs, language) ==
    SelectSeq(get_sources(srcs),
              LAMBDA s : language = NoLanguage \/ s.language = language)

(* get_articles(limit=...): ORDER BY published_date DESC LIMIT ?.  NULL    *)
(* sorts last, and the order among equal dates is not defined: the set of  *)
(* the results the query can give.                                         *)
SortsBefore(r, q) ==
    /\ r.published_date.present
    /\ (~q.published_date.present
           \/ r.published_date.wall > q.published_date.wall)

get_articles(arts, limit) ==
    {S \in SUBSET arts :
        /\ Cardinality(S) = IF Cardinality(arts) < limit
                            THEN Cardinality(arts) ELSE limit
        /\ \A r \in arts \ S : \A q \in S : ~SortsBefore(r, q)}

(* Lines 164-170: what is handed to post_articles_summary, which reports   *)
(* a failure of the post (sinkOk) as False and never raises.               *)
NotPosted == [called |-> FALSE, articles |-> {}, ok |-> TRUE]

Notification(arts, total_new_articles, sinkOk) ==
    IF total_new_articles > 0
    THEN {[called |-> TRUE, articles |-> recent_articles, ok |-> sinkOk] :
          recent_articles \in get_articles(arts, RecentLimit)}
    ELSE {NotPosted}

(* collect_news(language), with the environment envOf of each source and   *)
(* the outcome sinkOk of the post to Slack: what the call does to storage. *)
collect_news(language, envOf, sinkOk) ==
    /\ cycles < MaxCycles
    /\ \E selected \in {SelectedSources(sources, language)} :
       \E res \in {RunSources(Db(articles, nextArticleId, sources, nextSourceId,
                                  collection_logs),
                               selected, 1, envOf, filtering_config, now, tz,
                               <<>>)} :
       \E posted \in Notification(res.db.articles, TotalNew(res.runs), sinkOk) :
           /\ articles' = res.db.articles
           /\ nextArticleId' = res.db.nextArticleId
           /\ sources' = res.db.sources
           /\ nextSourceId' = res.db.nextSourceId
           /\ collection_logs' = res.db.collection_logs
           /\ last' = [ran |-> TRUE, at |-> now, language |-> language,
                       selected |-> selected,
                       before |-> articles, logs_before |-> Len(collection_logs),
                       runs |-> res.runs,
                       total_new_articles |-> TotalNew(res.runs),
                       repeated |-> last.ran /\ last.envOf = envOf,
                       envOf |-> envOf,
                       previous_new |-> last.total_new_articles,
                       posted |-> posted]
    /\ cycles' = cycles + 1

(* A call of collect_news from the command line or from a test. *)
CollectNews(language, envOf, sinkOk) ==
    /\ collect_news(language, envOf, sinkOk)
    /\ UNCHANGED <<now, tz, filtering_config, procs, probe, fetcher,
                   scheduler, socket>>

(* Time passes.  The clock starts with the first cycle. *)
Tick(t) ==
    /\ 0 < cycles /\ cycles < MaxCycles
    /\ t > now
    /\ now' = t
    /\ UNCHANGED <<tz, filtering_config, articles, nextArticleId, sources,
                   nextSourceId, collection_logs, cycles, last, procs, probe,
                   fetcher, scheduler, socket>>

---------------------------------------------------------------------------
(* The deployment of the main specification: three configured sources,     *)
(* the default filtering options, an empty articles table.                 *)

Source(id, name, source_type, language, filter_keywords) ==
    [id |-> id, name |-> name, source_type |-> source_type,
     language |-> language, enabled |-> TRUE, last_collected |-> NoDate,
     collection_count |-> 0, error_count |-> 0,
     filter_keywords |-> filter_keywords, tags |-> {"news"}]

FeedA == "Feed A"
FeedB == "Feed B"
SiteC == "Site C"

InitialSources ==
    {Source(1, FeedA, "rss", "english", {}),
     Source(2, FeedB, "rss", "japanese", {"ai"}),
     Source(3, SiteC, "website", "english", {})}

DefaultFiltering ==
    [min_article_length |-> DefaultMinArticleLength,
     max_article_age_days |-> DefaultMaxArticleAgeDays,
     blocked_domains |-> {}, required_keywords |-> {}]

TitleX == Title("Model X Released", "plain")
TitleXWide == Title("Model X Released", "wide")
TitleY == Title("Other News", "plain")
TitleZ == Title("Third", "plain")
TitleAI == Title("AI Weekly", "plain")

Long == Content(DefaultMinArticleLength, {"ai"})
Short == Content(DefaultMinArticleLength - 1, {"ai"})
OffTopic == Content(DefaultMinArticleLength, {})

(* The entries Feed A may serve, and its payloads. *)
EntriesA ==
    {Entry(UrlA1, TitleXWide, Long, NoDate), Entry(UrlA2, TitleY, Long, NoDate)}

SeqsUpTo(S, n) == UNION {[1..k -> S] : k \in 0..n}

(* Feed B always serves the same payload: an entry that shares its URL     *)
(* with Feed A, one that shares its title, one too short, one without the  *)
(* source's keywords.                                                      *)
PayloadB ==
    <<Entry(UrlA1, TitleZ, Long, NoDate), Entry(UrlB3, TitleY, Long, NoDate),
      Entry(UrlB4, TitleX, Short, NoDate), Entry(UrlB4, TitleX, OffTopic, NoDate)>>

MainEnvs ==
    {[n \in {FeedA, FeedB, SiteC} |->
         IF n = FeedA THEN e ELSE IF n = FeedB THEN Env(PayloadB) ELSE Env(<<>>)] :
     e \in {Env(f) : f \in SeqsUpTo(EntriesA, MaxEntries)}
           \cup {[Env(<<>>) EXCEPT !.fetch = "error"]}}

(* The threads that may run collect_news, and one that is not running. *)
Procs == {1, 2}

Idle ==
    [pc |-> "idle", list |-> <<>>, k |-> 0, envOf |-> <<>>,
     log |-> CollectionLog(0), arts |-> <<>>, i |-> 0, new_articles |-> <<>>,
     total_new_articles |-> 0]

(* _make_request has not been called. *)
NoRequest ==
    [state |-> "idle", retry_attempts |-> 0, attempt |-> 0, responses |-> <<>>,
     error |-> "none"]

(* No article has been given to the filter. *)
NoProbe == [applied |-> FALSE, dated |-> FALSE]

(* setup_scheduler has not been called: no job configured, none added, the  *)
(* locals retention_days and languages not yet bound, no job has run.       *)
NoJob == ""

NoScheduler ==
    [enabled |-> TRUE, jobs |-> <<>>, k |-> 0,
     retention_days |-> 0, languages |-> <<>>,
     added |-> {}, started |-> FALSE,
     job |-> NoJob, queue |-> <<>>, ran |-> <<>>,
     cleaned |-> [job |-> NoJob, days |-> 0]]

(* No socket-mode request has arrived. *)
NoSocket == [handled |-> <<>>]

NoCycle ==
    [ran |-> FALSE, at |-> 0, language |-> NoLanguage, selected |-> <<>>,
     before |-> {}, logs_before |-> 0,
     runs |-> <<>>, total_new_articles |-> 0, repeated |-> FALSE,
     envOf |-> <<>>, previous_new |-> 0, posted |-> NotPosted]

Init ==
    /\ now = 0
    /\ tz \in TZOffsets
    /\ filtering_config = DefaultFiltering
    /\ articles = {}
    /\ nextArticleId = 1
    /\ sources = InitialSources
    /\ nextSourceId = 4
    /\ collection_logs = <<>>
    /\ cycles = 0
    /\ last = NoCycle
    /\ procs = [p \in Procs |-> Idle]
    /\ probe = NoProbe
    /\ fetcher = NoRequest
    /\ scheduler = NoScheduler
    /\ socket = NoSocket

Next ==
    \/ \E t \in ClockPoints : Tick(t)
    \/ \E envOf \in MainEnvs : CollectNews(NoLanguage, envOf, TRUE)

Spec == Init /\ [][Next]_vars

---------------------------------------------------------------------------
(* Properties of the collection cycle, stated on the record of the last    *)
(* cycle.                                                                  *)

(* The runs of the last cycle, and the entries the collector saw. *)
LastRuns == {last.runs[k] : k \in 1..Len(last.runs)}

EntriesSeen(run) == FeedEntries(run.env)

(* Hours between the instant a stored item was collected and the cycle. *)
HoursSinceCollected(row) == last.at - (row.collected_date.wall - tz)

(* The logs the last cycle appended. *)
LogsOfLastCycle ==
    {collection_logs[j] : j \in (last.logs_before + 1)..Len(collection_logs)}

C3_WindowA ==
    \A run \in LastRuns : run.collected =>
        \A i \in 1..Len(run.fates) :
            LET same == {r \in run.before :
                            /\ r.url = EntriesSeen(run)[i].link
                            /\ r.source = run.source.name}
            IN  /\ (\E r \in same : HoursSinceCollected(r) < HoursOf(WindowADays))
                       => run.fates[i] = "url_skipped"
                /\ (\A r \in same : HoursSinceCollected(r) > HoursOf(WindowADays))
                       => run.fates[i] # "url_skipped"

(* C4: Window B.  An entry whose normalized title is that of an item       *)
(* collected from the same source less than 48 hours before the cycle is   *)
(* skipped (by the title check, unless the URL check skipped it first);    *)
(* when every such item is older than 48 hours the title check does not    *)
(* skip it.                                                                *)
C4_WindowB ==
    \A run \in LastRuns : run.collected =>
        \A i \in 1..Len(run.fates) :
            LET same == {r \in run.before :
                            /\ NormalizeTitle(r.title)
                                   = NormalizeTitle(EntriesSeen(run)[i].title)
                            /\ r.source = run.source.name}
            IN  /\ (\E r \in same : HoursSinceCollected(r) < HoursOf(WindowBDays))
                       => run.fates[i] \in {"url_skipped", "title_skipped"}
                /\ (\A r \in same : HoursSinceCollected(r) > HoursOf(WindowBDays))
                       => run.fates[i] # "title_skipped"

(* The raw items of a payload: the entries with a title and a link. *)
RawItemCount(feed) ==
    Cardinality({i \in 1..Len(feed) :
                    RawNonEmpty(feed[i].title) /\ feed[i].link # ""})

(* C5: Run counts.  The log of a run has status success, articles_found    *)
(* the number of raw items of the payload and articles_processed the       *)
(* number of surviving items.                                              *)
C5_RunCounts ==
    \A run \in LastRuns : run.logSaved =>
        /\ run.log.status = "success"
        /\ run.log.articles_found = RawItemCount(EntriesSeen(run))
        /\ run.log.articles_processed = Len(run.returned)

(* C6: Transport failure.  A run whose fetch fails at transport level ends *)
(* failed, with errors and with both counts 0.                             *)
C6_TransportFailure ==
    \A run \in LastRuns : (run.collected /\ run.env.fetch = "error") =>
        /\ run.log.status = "failed"
        /\ run.log.errors # <<>>
        /\ run.log.articles_found = 0
        /\ run.log.articles_processed = 0

(* C8: Unsupported source kind.  For a selected source of an unsupported   *)
(* kind the cycle records a log with status failed and errors.             *)
C8_UnsupportedKind ==
    \A run \in LastRuns : run.source.source_type # "rss" =>
        \E log \in LogsOfLastCycle :
            /\ log.source_id = run.source.id
            /\ log.status = "failed"
            /\ log.errors # <<>>

---------------------------------------------------------------------------
(* The cycle under faults: four sources, three of them RSS feeds, and a    *)
(* host on UTC.  In each cycle at most MaxFaults feeds meet a fault, of    *)
(* one kind: an exception raised by the step the kind names.               *)

FeedC == "Feed C"

FaultSources ==
    InitialSources \cup {Source(4, FeedC, "rss", "english", {})}

FaultKinds ==
    {"constructRaises", "filterRaises", "logSaveRaises", "articleSaveRaises",
     "sourceSaveRaises"}

Faulty(env, kind) == [env EXCEPT ![kind] = TRUE]

NoFault(env) == \A kind \in FaultKinds : ~env[kind]

PayloadOf(name) ==
    IF name = FeedA THEN <<Entry(UrlA1, TitleXWide, Long, NoDate)>>
    ELSE IF name = FeedB THEN PayloadB
    ELSE IF name = FeedC THEN <<Entry(UrlC5, TitleZ, Long, NoDate)>>
    ELSE <<>>

FaultEnvs ==
    {[n \in {FeedA, FeedB, SiteC, FeedC} |->
         IF n \in failing THEN Faulty(Env(PayloadOf(n)), kind)
         ELSE Env(PayloadOf(n))] :
     failing \in {F \in SUBSET {FeedA, FeedB, FeedC} : Cardinality(F) <= MaxFaults},
     kind \in FaultKinds}

Languages == {NoLanguage, "english"}

InitFaults ==
    /\ now = 0
    /\ tz = 0
    /\ filtering_config = DefaultFiltering
    /\ articles = {}
    /\ nextArticleId = 1
    /\ sources = FaultSources
    /\ nextSourceId = 5
    /\ collection_logs = <<>>
    /\ cycles = 0
    /\ last = NoCycle
    /\ procs = [p \in Procs |-> Idle]
    /\ probe = NoProbe
    /\ fetcher = NoRequest
    /\ scheduler = NoScheduler
    /\ socket = NoSocket

NextFaults ==
    \E language \in Languages : \E envOf \in FaultEnvs :
        CollectNews(language, envOf, TRUE)

SpecFaults == InitFaults /\ [][NextFaults]_vars

(* A run that does not fail: the source's kind is supported and no step of *)
(* its run raises.                                                         *)
RunsClean(run) == run.source.source_type = "rss" /\ NoFault(run.env)

HasSuccessLog(run) ==
    \E log \in LogsOfLastCycle :
        log.source_id = run.source.id /\ log.status = "success"

(* C7: Partial-failure isolation.  Whatever step of a source's run raises, *)
(* every selected source is run in the cycle, in order, and every source   *)
(* whose own run does not fail completes and gets a log with status        *)
(* success.                                                                *)
C7_Isolation ==
    last.ran =>
        /\ Len(last.runs) = Len(last.selected)
        /\ \A k \in 1..Len(last.runs) :
              /\ last.runs[k].source = last.selected[k]
              /\ RunsClean(last.runs[k]) =>
                    /\ last.runs[k].outcome = "completed"
                    /\ HasSuccessLog(last.runs[k])

(* A cycle over the three feeds in which the first one raises and the two  *)
(* after it complete, save their articles and get their logs.              *)
C7_Witness ==
    /\ last.ran
    /\ Cardinality({k \in 1..Len(last.runs) :
                       last.runs[k].source.source_type = "rss"}) = 3
    /\ last.runs[1].outcome = "raised"
    /\ Cardinality({k \in 2..Len(last.runs) :
                       /\ RunsClean(last.runs[k])
                       /\ last.runs[k].outcome = "completed"
                       /\ last.runs[k].new_articles # <<>>
                       /\ HasSuccessLog(last.runs[k])}) = 2

---------------------------------------------------------------------------
(* Concurrent cycles.  The scheduler runs its jobs on a pool of threads,   *)
(* and a second process may be started with --collect-now: two calls of    *)
(* collect_news interleave at the storage calls, each of which is one      *)
(* transaction.  A thread is at                                            *)
(*   "idle"    not started                                                 *)
(*   "source"  the head of the loop over the sources                       *)
(*   "check"   the head of the loop over the source's articles             *)
(*   "save"    after the two existence checks found nothing                *)
(*   "done"    returned                                                    *)

Me(p) == procs[p]

CurrentSource(p) == Me(p).list[Me(p).k]

CurrentEnv(p) == Me(p).envOf[CurrentSource(p).name]

CurrentArticle(p) == Me(p).arts[Me(p).i]

(* Lines 59-74: the sources are read once. *)
Begin(p, language, envOf) ==
    /\ Me(p).pc = "idle"
    /\ procs' = [procs EXCEPT ![p] =
                    [Idle EXCEPT !.pc = "source",
                                 !.list = SelectedSources(sources, language),
                                 !.k = 1, !.envOf = envOf]]
    /\ UNCHANGED <<now, tz, filtering_config, articles, nextArticleId, sources,
                   nextSourceId, collection_logs, cycles, last, probe,
                   fetcher, scheduler, socket>>

(* Lines 76-95: the collector runs and its log is saved. *)
Collect(p) ==
    /\ Me(p).pc = "source" /\ Me(p).k <= Len(Me(p).list)
    /\ IF CurrentSource(p).source_type # "rss"
       THEN /\ procs' = [procs EXCEPT ![p].k = @ + 1]
            /\ UNCHANGED collection_logs
       ELSE \E res \in {collect_with_logging(articles, CurrentSource(p),
                                             CurrentEnv(p), filtering_config,
                                             now, tz)} :
                /\ collection_logs' = save_collection_log(collection_logs, res.log)
                /\ procs' = [procs EXCEPT ![p].pc = "check", ![p].log = res.log,
                                          ![p].arts = res.articles, ![p].i = 1,
                                          ![p].new_articles = <<>>]
    /\ articles' = IF CurrentSource(p).source_type = "rss"
                      /\ CurrentEnv(p).storageOpens
                   THEN init_database(articles) ELSE articles
    /\ UNCHANGED <<now, tz, filtering_config, nextArticleId, sources,
                   nextSourceId, cycles, last, probe, fetcher,
                   scheduler, socket>>

(* Lines 98-111: the two existence checks. *)
Check(p) ==
    /\ Me(p).pc = "check" /\ Me(p).i <= Len(Me(p).arts)
    /\ procs' = IF AlreadyStored(articles, CurrentArticle(p))
                THEN [procs EXCEPT ![p].i = @ + 1]
                ELSE [procs EXCEPT ![p].pc = "save"]
    /\ UNCHANGED <<now, tz, filtering_config, articles, nextArticleId, sources,
                   nextSourceId, collection_logs, cycles, last, probe,
                   fetcher, scheduler, socket>>

(* Lines 113-134: summary, tags, save_article. *)
Save(p) ==
    /\ Me(p).pc = "save"
    /\ \E article \in {Enriched(CurrentArticle(p), CurrentEnv(p))} :
       \E saved \in {save_article(articles, nextArticleId, article)} :
           /\ articles' = saved.articles
           /\ nextArticleId' = saved.nextArticleId
           /\ procs' = [procs EXCEPT ![p].pc = "check", ![p].i = @ + 1,
                                     ![p].new_articles = Append(@, article)]
    /\ UNCHANGED <<now, tz, filtering_config, sources, nextSourceId,
                   collection_logs, cycles, last, probe, fetcher,
                   scheduler, socket>>

(* Lines 144-156: the source's statistics are saved. *)
Finish(p) ==
    /\ Me(p).pc = "check" /\ Me(p).i > Len(Me(p).arts)
    /\ \E ss \in {save_source(sources, nextSourceId,
                              UpdatedSource(CurrentSource(p), Me(p).log, now, tz))} :
           /\ sources' = ss.sources
           /\ nextSourceId' = ss.nextSourceId
    /\ procs' = [procs EXCEPT ![p].pc = "source", ![p].k = @ + 1,
                              ![p].total_new_articles =
                                  @ + Len(Me(p).new_articles)]
    /\ UNCHANGED <<now, tz, filtering_config, articles, nextArticleId,
                   collection_logs, cycles, last, probe, fetcher,
                   scheduler, socket>>

(* Lines 162-170: the loop is over. *)
End(p) ==
    /\ Me(p).pc = "source" /\ Me(p).k > Len(Me(p).list)
    /\ procs' = [procs EXCEPT ![p].pc = "done"]
    /\ UNCHANGED <<now, tz, filtering_config, articles, nextArticleId, sources,
                   nextSourceId, collection_logs, cycles, last, probe,
                   fetcher, scheduler, socket>>

(* Both feeds carry the same story, under the same URL; the run of Feed A  *)
(* may fail in its filter.                                                 *)
ConcEnvs ==
    {[n \in {FeedA, FeedB, SiteC} |->
         IF n = FeedA
         THEN [Env(<<Entry(UrlA1, TitleXWide, Long, NoDate)>>)
                  EXCEPT !.filterRaises = fails]
         ELSE IF n = FeedB THEN Env(PayloadB) ELSE Env(<<>>)] :
     fails \in BOOLEAN}

NextConc ==
    \E p \in Procs :
        \/ \E language \in {"english", "japanese"} : \E envOf \in ConcEnvs :
               Begin(p, language, envOf)
        \/ Collect(p)
        \/ Check(p)
        \/ Save(p)
        \/ Finish(p)
        \/ End(p)

SpecConc == Init /\ [][NextConc]_vars

(* C2: URL uniqueness.  No two stored rows share a url, and a save of an   *)
(* article whose url is already stored changes nothing: the stored row     *)
(* keeps its id, title, content, summary and collected date.               *)
C2_UrlUniqueNoOp ==
    /\ [](\A r \in articles : \A q \in articles : r.url = q.url => r = q)
    /\ [][\A p \in Procs :
             (/\ Me(p).pc = "save"
              /\ procs'[p].pc = "check"
              /\ get_article_by_url(articles, CurrentArticle(p).url) # {})
                 => articles' = articles]_vars

---------------------------------------------------------------------------
(* The filter on its own: one article is given to                          *)
(* _should_include_article under a drawn configuration, on a drawn host.   *)
(*                                                                         *)
(* A feed's timestamp of a publication instant t (UTC hours) is            *)
(*   "aware_utc"  zone-aware, offset 0    ("... +0000")                    *)
(*   "aware_jst"  zone-aware, offset +9   ("... +0900")                    *)
(*   "naive_utc"  zone-naive, reading UTC ("...Z", "... GMT", *_parsed)    *)

Reprs == {"aware_utc", "aware_jst", "naive_utc"}

Published(t, repr) ==
    IF repr = "aware_utc" THEN Aware(t, 0)
    ELSE IF repr = "aware_jst" THEN Aware(t + 9, 9)
    ELSE Naive(t)

FilterConfigs ==
    {[min_article_length |-> m, max_article_age_days |-> d,
      blocked_domains |-> b, required_keywords |-> k] :
     m \in {1, 50, DefaultMinArticleLength},
     d \in {1, DefaultMaxArticleAgeDays},
     b \in {{}, {"b"}},
     k \in {{}, {"AI"}}}

(* The ages probed, in hours, around the limit of d days. *)
AgesAround(d) ==
    {HoursOf(d) - 1, HoursOf(d), HoursOf(d) + 1,
     HoursOf(d + 1) - 1, HoursOf(d + 1), HoursOf(d + 1) + 1}

(* The instant of the filter runs: late enough for every age probed. *)
FilterTime == HoursOf(DefaultMaxArticleAgeDays + 1) + 1

(* An article as the collector hands it to the filter. *)
Collected(url, title, content, published, nowUtc, tzv) ==
    _process_entry(Entry(url, title, content, published),
                   [name |-> FeedA, tags |-> {}], nowUtc, tzv)

(* The articles probed: undated ones, and dated ones with the age (hours   *)
(* from the publication instant to the filter's run) they truly have.      *)
ProbeInputs(cfg, nowUtc, tzv) ==
    {[article |-> Collected(u, t, Content(len, w), NoDate, nowUtc, tzv),
      dated |-> FALSE, age |-> 0] :
     u \in {UrlA1, UrlB3},
     t \in {TitleX, TitleAI},
     len \in {cfg.min_article_length - 1, cfg.min_article_length,
              cfg.min_article_length + 1},
     w \in {{}, {"ai"}}}
    \cup
    {[article |-> Collected(UrlA1, TitleX, Content(len, {"ai"}),
                            Published(nowUtc - age, repr), nowUtc, tzv),
      dated |-> TRUE, age |-> age] :
     len \in {cfg.min_article_length - 1, cfg.min_article_length},
     repr \in Reprs,
     age \in AgesAround(cfg.max_article_age_days)}

(* _should_include_article(article): the verdict and the part each check   *)
(* has in it.                                                              *)
ApplyFilter(input) ==
    /\ probe' = [applied |-> TRUE, article |-> input.article,
                 dated |-> input.dated, age |-> input.age,
                 operands |-> AgeOperands(input.article.published_date, now, tz),
                 age_raises |->
                     /\ input.article.published_date.present
                     /\ SubtractionRaises(
                            AgeOperands(input.article.published_date, now, tz).now,
                            AgeOperands(input.article.published_date, now, tz).pub),
                 length_ok |-> LengthCheck(input.article, filtering_config),
                 age_ok |-> AgeCheck(input.article, filtering_config, now, tz),
                 include |-> _should_include_article(input.article,
                                                     filtering_config, now, tz)]
    /\ UNCHANGED <<now, tz, filtering_config, articles, nextArticleId, sources,
                   nextSourceId, collection_logs, cycles, last, procs,
                   fetcher, scheduler, socket>>

InitFilter ==
    /\ now = FilterTime
    /\ tz \in TZOffsets
    /\ filtering_config \in FilterConfigs
    /\ articles = {}
    /\ nextArticleId = 1
    /\ sources = InitialSources
    /\ nextSourceId = 4
    /\ collection_logs = <<>>
    /\ cycles = 0
    /\ last = NoCycle
    /\ procs = [p \in Procs |-> Idle]
    /\ probe = NoProbe
    /\ fetcher = NoRequest
    /\ scheduler = NoScheduler
    /\ socket = NoSocket

NextFilter ==
    \E input \in ProbeInputs(filtering_config, now, tz) : ApplyFilter(input)

SpecFilter == InitFilter /\ [][NextFilter]_vars

(* C9: Length boundary.  Under every configured minimum, an article whose  *)
(* cleaned content has exactly the minimum length passes the length check, *)
(* and one a character shorter fails it and is rejected.                   *)
C9_LengthBoundary ==
    probe.applied =>
        /\ (probe.article.content.len = filtering_config.min_article_length
               => probe.length_ok)
        /\ (probe.article.content.len = filtering_config.min_article_length - 1
               => ~probe.length_ok /\ ~probe.include)

(* An article of exactly the minimum length that is included, under the    *)
(* default minimum.                                                        *)
C9_Witness ==
    /\ probe.applied
    /\ filtering_config.min_article_length = DefaultMinArticleLength
    /\ probe.article.content.len = DefaultMinArticleLength
    /\ probe.length_ok /\ probe.include

(* C10: Age boundary.  An article published exactly max_article_age_days   *)
(* before the filter runs passes the age check, and one published a day    *)
(* earlier than that fails it.                                             *)
C10_AgeBoundary ==
    (probe.applied /\ probe.dated) =>
        /\ (probe.age = HoursOf(filtering_config.max_article_age_days)
               => probe.age_ok)
        /\ (probe.age = HoursOf(filtering_config.max_article_age_days + 1)
               => ~probe.age_ok)

(* C11: Age rule.  A dated article whose age, the duration from its        *)
(* publication to the filter's run, exceeds max_article_age_days by any    *)
(* amount is rejected.                                                     *)
C11_AgeRule ==
    (/\ probe.applied /\ probe.dated
     /\ probe.age > HoursOf(filtering_config.max_article_age_days))
        => ~probe.age_ok /\ ~probe.include

(* C12: Timezone coercion.  Whenever the age check subtracts, for a naive  *)
(* or an aware published date, both operands of now - published_date have  *)
(* the same awareness, and the subtraction does not raise.                 *)
C12_SameAwareness ==
    (probe.applied /\ probe.dated) =>
        /\ probe.operands.pub = probe.article.published_date
        /\ probe.operands.now.aware = probe.operands.pub.aware
        /\ ~probe.age_raises

(* A zone-aware published date met by a now that was made zone-aware, on a *)
(* host off UTC.                                                           *)
C12_Witness ==
    /\ probe.applied /\ probe.dated
    /\ probe.article.published_date.aware
    /\ probe.operands.now.aware
    /\ tz # 0

---------------------------------------------------------------------------
(* The cycle with degraded collaborators: in each cycle the summarization  *)
(* service or the tag-suggestion service may be down, and the collector's  *)
(* duplicate lookup may fail, and the post to Slack may fail,              *)
(* either at its queries or already when the storage is opened.  The       *)
(* minimum content length is the default or 0, and Feed A may serve an     *)
(* entry without content whose title is a denylisted phrase alone, or a    *)
(* malformed entry between two well-formed ones.                           *)

LookupModes == {"ok", "query_fails", "open_fails"}

Degraded(env, summarizerUp, taggerUp, lookup) ==
    [env EXCEPT !.summarizerUp = summarizerUp, !.taggerUp = taggerUp,
                !.lookupOk = (lookup # "query_fails"),
                !.storageOpens = (lookup # "open_fails")]

StoryEntry == Entry(UrlA1, TitleXWide, Long, NoDate)

BareEntry == Entry(UrlA2, Title("", "boiler"), Content(0, {}), NoDate)

(* Besides these, an entry with content whose title is the phrase alone,   *)
(* and an entry without a title.                                           *)
DegradedPayloads ==
    {<<StoryEntry>>, <<BareEntry>>, <<StoryEntry, BareEntry>>,
     <<[BareEntry EXCEPT !.content = Long]>>,
     <<[StoryEntry EXCEPT !.title = EmptyTitle], StoryEntry>>,
     <<StoryEntry, [BareEntry EXCEPT !.raises = TRUE],
       [StoryEntry EXCEPT !.link = UrlA2, !.title = TitleAI]>>}

DegradedEnvs ==
    {[n \in {FeedA, FeedB, SiteC} |->
         Degraded(Env(IF n = FeedA THEN payload
                      ELSE IF n = FeedB THEN PayloadB ELSE <<>>),
                  up, tagger, lookup)] :
     payload \in DegradedPayloads, up \in BOOLEAN, tagger \in BOOLEAN,
     lookup \in LookupModes}

InitDegraded ==
    /\ now = 0
    /\ tz = 0
    /\ filtering_config \in
           {DefaultFiltering, [DefaultFiltering EXCEPT !.min_article_length = 0]}
    /\ articles = {}
    /\ nextArticleId = 1
    /\ sources = InitialSources
    /\ nextSourceId = 4
    /\ collection_logs = <<>>
    /\ cycles = 0
    /\ last = NoCycle
    /\ procs = [p \in Procs |-> Idle]
    /\ probe = NoProbe
    /\ fetcher = NoRequest
    /\ scheduler = NoScheduler
    /\ socket = NoSocket

NextDegraded ==
    \E envOf \in DegradedEnvs : \E sinkOk \in BOOLEAN :
        CollectNews(NoLanguage, envOf, sinkOk)

SpecDegraded == InitDegraded /\ [][NextDegraded]_vars

(* C13: Fallback guarantee.  When the summarization service is down, every *)
(* article saved in the cycle has a non-empty summary taken from its own   *)
(* content or title, and no article the collector returned is left out of  *)
(* the storage.                                                            *)
C13_FallbackSummary ==
    \A run \in LastRuns : ~run.env.summarizerUp =>
        /\ \A i \in 1..Len(run.new_articles) :
              /\ ~run.new_articles[i].summary.empty
              /\ run.new_articles[i].summary.by \in {"content", "title"}
        /\ \A i \in 1..Len(run.returned) : AlreadyStored(articles, run.returned[i])

(* C15: Duplicate-lookup degradation.  When the duplicate lookup fails,    *)
(* at its queries or at opening the storage, every entry of the payload    *)
(* fares as it does when no URL and no title is known, the run's log is    *)
(* not failed and the run completes.                                       *)
C15_LookupDegradation ==
    \A run \in LastRuns :
        (run.collected /\ (~run.env.lookupOk \/ ~run.env.storageOpens)) =>
            /\ run.fates = Fates(EntriesSeen(run), [urls |-> {}, titles |-> {}],
                                 run.source)
            /\ run.log.status # "failed"
            /\ run.outcome = "completed"

---------------------------------------------------------------------------
(* The fetcher: BaseCollector._make_request, one step per iteration of its *)
(* loop.  What session.get followed by raise_for_status does is            *)
(*   "ok"                a 2xx response                                    *)
(*   "timeout", "connection_error", "http_4xx", "http_5xx"                 *)
(*                       a requests.exceptions.RequestException            *)
(*   "other_error"       any other exception                               *)

RequestExceptions == {"timeout", "connection_error", "http_4xx", "http_5xx"}

GetOutcomes == {"ok", "other_error"} \cup RequestExceptions

(* The loop never takes the branch that re-raises. *)
IsLastAttemptNever(attempt, retry_attempts) == FALSE

(* Line 155: attempt == retry_attempts - 1. *)
IsLastAttempt(attempt, retry_attempts) == attempt = retry_attempts - 1

(* Lines 145-148: the attempt budget is read and the loop entered. *)
MakeRequest(retry_attempts) ==
    /\ fetcher.state = "idle"
    /\ fetcher' = [NoRequest EXCEPT !.state = "running",
                                    !.retry_attempts = retry_attempts]
    /\ UNCHANGED <<now, tz, filtering_config, articles, nextArticleId, sources,
                   nextSourceId, collection_logs, cycles, last, procs, probe,
                   scheduler, socket>>

(* Lines 148-161: one iteration of the loop. *)
SessionGet(outcome) ==
    /\ fetcher.state = "running"
    /\ fetcher.attempt < fetcher.retry_attempts
    /\ fetcher' =
           IF outcome = "ok"
           THEN [fetcher EXCEPT !.responses = Append(@, outcome),
                                !.state = "returned"]
           ELSE IF outcome \in RequestExceptions
                   /\ ~IsLastAttempt(fetcher.attempt, fetcher.retry_attempts)
           THEN [fetcher EXCEPT !.responses = Append(@, outcome),
                                !.attempt = @ + 1]
           ELSE [fetcher EXCEPT !.responses = Append(@, outcome),
                                !.state = "raised", !.error = outcome]
    /\ UNCHANGED <<now, tz, filtering_config, articles, nextArticleId, sources,
                   nextSourceId, collection_logs, cycles, last, procs, probe,
                   scheduler, socket>>

(* Line 163: the loop ended without returning or raising. *)
LoopExhausted ==
    /\ fetcher.state = "running"
    /\ fetcher.attempt >= fetcher.retry_attempts
    /\ fetcher' = [fetcher EXCEPT !.state = "raised", !.error = "RuntimeError"]
    /\ UNCHANGED <<now, tz, filtering_config, articles, nextArticleId, sources,
                   nextSourceId, collection_logs, cycles, last, procs, probe,
                   scheduler, socket>>

NextFetch ==
    \/ \E retry_attempts \in 0..MaxRetryAttempts : MakeRequest(retry_attempts)
    \/ \E outcome \in GetOutcomes : SessionGet(outcome)
    \/ LoopExhausted

SpecFetch == Init /\ [][NextFetch]_vars

(* C14: Retry discipline.  Under every attempt budget the fetcher issues   *)
(* at most that many requests; a further request follows a transport-level *)
(* failure only, so the first 2xx response is returned at once; and when   *)
(* every attempt failed the error raised is that of the last attempt.      *)
C14_RetryDiscipline ==
    fetcher.state # "idle" =>
        /\ Len(fetcher.responses) <= fetcher.retry_attempts
        /\ \A i \in 1..(Len(fetcher.responses) - 1) :
               fetcher.responses[i] \in RequestExceptions
        /\ fetcher.state = "returned" <=>
               (/\ fetcher.responses # <<>>
                /\ fetcher.responses[Len(fetcher.responses)] = "ok")
        /\ (fetcher.state = "raised" /\ fetcher.responses # <<>>) =>
               /\ fetcher.error = fetcher.responses[Len(fetcher.responses)]
               /\ fetcher.error \in RequestExceptions =>
                      Len(fetcher.responses) = fetcher.retry_attempts
        /\ (fetcher.state = "raised" /\ fetcher.responses = <<>>) =>
               fetcher.retry_attempts = 0

(* A budget of three, used up by three transport failures of which the     *)
(* last, not the first, is raised.                                         *)
C14_Witness ==
    /\ fetcher.state = "raised"
    /\ fetcher.retry_attempts = 3
    /\ Len(fetcher.responses) = 3
    /\ fetcher.responses[1] = "timeout"
    /\ fetcher.responses[3] = "http_5xx"
    /\ fetcher.error = "http_5xx"

---------------------------------------------------------------------------
(* Concurrent cycles, continued. *)

(* C16: Concurrent insert-if-absent.  When two concurrent calls each hold  *)
(* an article with the same url, then in every interleaving of their       *)
(* existence checks and saves only one insert per url takes effect (each   *)
(* id handed out belongs to a stored row) and a row, once stored, is       *)
(* never overwritten.                                                      *)
C16_InsertIfAbsent ==
    /\ [](Cardinality(articles) = nextArticleId - 1)
    /\ [][\A r \in articles : r \in articles']_vars


(* C17: Filter acceptance.  An article is accepted exactly when its        *)
(* content is at least min_article_length long, and it has no published    *)
(* date or its age does not exceed max_article_age_days, and its host      *)
(* contains no blocked domain, and no keyword is required or its title or  *)
(* content contains one, whatever the letter case.                         *)
C17_Acceptance ==
    probe.applied =>
        (probe.include <=>
            /\ probe.article.content.len >= filtering_config.min_article_length
            /\ (~probe.dated
                   \/ probe.age <= HoursOf(filtering_config.max_article_age_days))
            /\ ~(\E b \in filtering_config.blocked_domains :
                    \E i \in 1..Len(Netloc(probe.article.url)) :
                        Netloc(probe.article.url)[i] = b)
            /\ (filtering_config.required_keywords = {}
                   \/ \E k \in filtering_config.required_keywords :
                         Lower(k) \in TitleAndContent(probe.article)))


(* C18: Run log new count.  The log persisted for a run records, as        *)
(* articles_new, the number of items the run newly saved.                  *)
C18_NewCount ==
    \A run \in LastRuns : run.logSaved =>
        \E log \in LogsOfLastCycle :
            /\ log.source_id = run.source.id
            /\ log.articles_new = Len(run.new_articles)


---------------------------------------------------------------------------
(* Date extraction: RSSCollector._extract_published_date.  _process_entry  *)
(* stores its result as the article's published_date; the payloads above   *)
(* give that result directly as the entry's field published.               *)
(*                                                                         *)
(* A raw date field (published, updated, created) of an entry is absent,   *)
(* the empty string, or a text in one of four styles:                      *)
(*   "iso_z"          2024-05-01T01:00:00Z                                 *)
(*   "rfc822_offset"  Wed, 01 May 2024 10:00:00 +0900                      *)
(*   "iso_offset"     2024-05-01T10:00:00+09:00                            *)
(*   "free_text"      yesterday                                            *)
(* wall is the wall-clock reading written in the text, off its offset.     *)
(* A parsed field (published_parsed, updated_parsed) is absent, None, a    *)
(* struct_time reading UTC, or a struct_time outside the range of mktime.  *)

NoField == [kind |-> "absent", wall |-> 0, off |-> 0]
EmptyString == [kind |-> "empty", wall |-> 0, off |-> 0]
DateString(kind, wall, off) == [kind |-> kind, wall |-> wall, off |-> off]

NoStruct == [kind |-> "absent", wall |-> 0]
NoneStruct == [kind |-> "none", wall |-> 0]
StructTime(wall) == [kind |-> "valid", wall |-> wall]
StructOutOfRange == [kind |-> "overflow", wall |-> 0]

(* hasattr(entry, field) and the field's value is truthy. *)
HasText(s) == s.kind \notin {"absent", "empty"}
HasStruct(st) == st.kind \notin {"absent", "none"}

(* _parse_date: the first format strptime accepts.  Of the styles above,   *)
(* '%Y-%m-%dT%H:%M:%SZ' accepts iso_z (Z is a literal: a naive datetime),  *)
(* '%a, %d %b %Y %H:%M:%S %z' accepts rfc822_offset (an aware datetime);   *)
(* no format accepts an offset written with a colon after an ISO time, or  *)
(* free text.                                                              *)
_parse_date(s) ==
    IF ~HasText(s) THEN NoDate
    ELSE IF s.kind = "iso_z" THEN Naive(s.wall)
    ELSE IF s.kind = "rfc822_offset" THEN Aware(s.wall, s.off)
    ELSE NoDate

(* datetime.fromtimestamp(time.mktime(st)): the struct's reading, naive;   *)
(* OverflowError/ValueError are swallowed (pass).                          *)
FromStruct(st) == IF st.kind = "valid" THEN Naive(st.wall) ELSE NoDate

(* Lines 170-176: the first raw field with a text decides. *)
FirstText(entry) ==
    IF HasText(entry.published) THEN entry.published
    ELSE IF HasText(entry.updated) THEN entry.updated
    ELSE IF HasText(entry.created) THEN entry.created
    ELSE NoField

_extract_published_date(entry) ==
    IF HasText(FirstText(entry)) THEN _parse_date(FirstText(entry))
    ELSE IF HasStruct(entry.published_parsed)
            /\ FromStruct(entry.published_parsed).present
         THEN FromStruct(entry.published_parsed)
    ELSE IF HasStruct(entry.updated_parsed)
            /\ FromStruct(entry.updated_parsed).present
         THEN FromStruct(entry.updated_parsed)
    ELSE NoDate

(* The instant the probed entries were published (UTC hours) and the       *)
(* texts and structs that may carry it.                                    *)
DateStrings ==
    {NoField, EmptyString, DateString("iso_z", 1, 0),
     DateString("rfc822_offset", 10, 9), DateString("iso_offset", 10, 9),
     DateString("free_text", 0, 0)}

Structs == {NoStruct, NoneStruct, StructTime(1), StructOutOfRange}

DatedEntries ==
    [published : DateStrings,
     updated : {NoField, EmptyString, DateString("iso_z", 1, 0),
                DateString("free_text", 0, 0)},
     created : {NoField, DateString("iso_z", 1, 0)},
     published_parsed : Structs,
     updated_parsed : {NoStruct, StructTime(1), StructOutOfRange}]

ExtractDate(entry) ==
    /\ probe' = [applied |-> TRUE, dated |-> _extract_published_date(entry).present,
                 entry |-> entry,
                 published_date |-> _extract_published_date(entry)]
    /\ UNCHANGED <<now, tz, filtering_config, articles, nextArticleId, sources,
                   nextSourceId, collection_logs, cycles, last, procs,
                   fetcher, scheduler, socket>>

NextDates == \E entry \in DatedEntries : ExtractDate(entry)

SpecDates == Init /\ [][NextDates]_vars

(* The parsed structs of an entry that yield a datetime, in the order      *)
(* published_parsed, updated_parsed.                                       *)
UsableStructs(entry) ==
    SelectSeq(<<entry.published_parsed, entry.updated_parsed>>,
              LAMBDA st : st.kind = "valid")

(* C19: Published timestamp extraction.  The extracted timestamp is null   *)
(* only if no raw date text of the entry matches a format and the entry    *)
(* has no usable parsed struct; whenever a usable parsed struct is         *)
(* present the timestamp is non-null and, the structs being tried first,   *)
(* it is the first usable struct's datetime.                               *)
C19_Extraction ==
    probe.applied =>
        /\ ~probe.published_date.present =>
              /\ \A s \in {probe.entry.published, probe.entry.updated,
                           probe.entry.created} : ~_parse_date(s).present
              /\ UsableStructs(probe.entry) = <<>>
        /\ UsableStructs(probe.entry) # <<>> =>
              /\ probe.published_date.present
              /\ probe.published_date = FromStruct(UsableStructs(probe.entry)[1])


---------------------------------------------------------------------------
(* Text cleaning, character by character: BaseCollector._clean_text.  A    *)
(* text is the sequence of its characters.  (CleanText above is the same   *)
(* function on the four written forms of a title.)                         *)

MaxChunks == 5
MaxCleanings == 2

(* The characters str.split() and str.strip() take for whitespace. *)
IsSpace(c) == c \in {" ", "\t"}

(* unwanted_patterns, in the order of the list. *)
unwanted_patterns ==
    << <<"R", "e", "a", "d", " ", "m", "o", "r", "e">>,
       <<"C", "o", "n", "t", "i", "n", "u", "e", " ",
         "r", "e", "a", "d", "i", "n", "g">>,
       <<"C", "l", "i", "c", "k", " ", "h", "e", "r", "e">>,
       <<"S", "u", "b", "s", "c", "r", "i", "b", "e">>,
       <<"A", "d", "v", "e", "r", "t", "i", "s", "e", "m", "e", "n", "t">> >>

(* text.split(): the maximal runs of non-whitespace characters; word is    *)
(* the run being read.                                                     *)
RECURSIVE SplitFrom(_, _, _)
SplitFrom(text, i, word) ==
    IF i > Len(text) THEN (IF word = <<>> THEN <<>> ELSE <<word>>)
    ELSE IF IsSpace(text[i])
         THEN (IF word = <<>> THEN <<>> ELSE <<word>>)
              \o SplitFrom(text, i + 1, <<>>)
    ELSE SplitFrom(text, i + 1, Append(word, text[i]))

(* ' '.join(words) *)
RECURSIVE JoinFrom(_, _)
JoinFrom(words, k) ==
    IF k > Len(words) THEN <<>>
    ELSE IF k = Len(words) THEN words[k]
    ELSE words[k] \o <<" ">> \o JoinFrom(words, k + 1)

(* pattern occurs in text at position i. *)
OccursAt(text, i, pattern) ==
    /\ i + Len(pattern) - 1 <= Len(text)
    /\ \A j \in 1..Len(pattern) : text[i + j - 1] = pattern[j]

(* pattern in text *)
Contains(text, pattern) == \E i \in 1..Len(text) : OccursAt(text, i, pattern)

(* text.replace(pattern, ''): the occurrences are removed from left to     *)
(* right, without overlap, in one pass.                                    *)
RECURSIVE ReplaceFrom(_, _, _)
ReplaceFrom(text, i, pattern) ==
    IF i > Len(text) THEN <<>>
    ELSE IF OccursAt(text, i, pattern)
         THEN ReplaceFrom(text, i + Len(pattern), pattern)
    ELSE <<text[i]>> \o ReplaceFrom(text, i + 1, pattern)

(* The loop over unwanted_patterns, from the k-th pattern on. *)
RECURSIVE RemovePatterns(_, _)
RemovePatterns(text, k) ==
    IF k > Len(unwanted_patterns) THEN text
    ELSE RemovePatterns(ReplaceFrom(text, 1, unwanted_patterns[k]), k + 1)

(* text.strip(): RStrip(LStrip(text)) *)
RECURSIVE LStrip(_)
LStrip(text) ==
    IF text # <<>> /\ IsSpace(Head(text)) THEN LStrip(Tail(text)) ELSE text

RECURSIVE RStrip(_)
RStrip(text) ==
    IF text # <<>> /\ IsSpace(text[Len(text)])
    THEN RStrip(SubSeq(text, 1, Len(text) - 1)) ELSE text

_clean_text(text) ==
    IF text = <<>> THEN <<>>
    ELSE RStrip(LStrip(RemovePatterns(
             JoinFrom(SplitFrom(text, 1, <<>>), 1), 1)))

(* The texts cleaned: up to MaxChunks pieces, each a letter, a blank, a    *)
(* tab, a denylisted phrase or a half of one.                              *)
Chunks ==
    {<<"a">>, <<" ">>, <<"\t">>, unwanted_patterns[1], unwanted_patterns[4],
     <<"S", "u", "b">>, <<"s", "c", "r", "i", "b", "e">>}

RECURSIVE Concat(_, _)
Concat(pieces, k) ==
    IF k > Len(pieces) THEN <<>> ELSE pieces[k] \o Concat(pieces, k + 1)

Texts == {Concat(pieces, 1) : pieces \in SeqsUpTo(Chunks, MaxChunks)}

InitClean ==
    /\ now = 0
    /\ tz = 0
    /\ filtering_config = DefaultFiltering
    /\ articles = {}
    /\ nextArticleId = 1
    /\ sources = InitialSources
    /\ nextSourceId = 4
    /\ collection_logs = <<>>
    /\ cycles = 0
    /\ last = NoCycle
    /\ procs = [p \in Procs |-> Idle]
    /\ probe \in {[applied |-> FALSE, dated |-> FALSE, text |-> text,
                   before |-> text, times |-> 0] : text \in Texts}
    /\ fetcher = NoRequest
    /\ scheduler = NoScheduler
    /\ socket = NoSocket

(* _clean_text applied to the text at hand (a raw text, or the result of   *)
(* the cleaning before).                                                   *)
Clean ==
    /\ probe.times < MaxCleanings
    /\ probe' = [probe EXCEPT !.applied = TRUE, !.before = probe.text,
                              !.text = _clean_text(probe.text),
                              !.times = @ + 1]
    /\ UNCHANGED <<now, tz, filtering_config, articles, nextArticleId, sources,
                   nextSourceId, collection_logs, cycles, last, procs,
                   fetcher, scheduler, socket>>

SpecClean == InitClean /\ [][Clean]_vars

(* C20: Text cleaning postcondition.  A cleaned text has no two whitespace *)
(* characters in a row, contains no denylisted phrase, neither starts nor  *)
(* ends with whitespace, and cleaning it again returns it unchanged.       *)
C20_CleanPostcondition ==
    probe.applied =>
        /\ \A i \in 1..(Len(probe.text) - 1) :
              ~(IsSpace(probe.text[i]) /\ IsSpace(probe.text[i + 1]))
        /\ \A k \in 1..Len(unwanted_patterns) :
              ~Contains(probe.text, unwanted_patterns[k])
        /\ probe.text # <<>> =>
              ~IsSpace(probe.text[1]) /\ ~IsSpace(probe.text[Len(probe.text)])
        /\ probe.times > 1 => probe.text = probe.before


(* C21: Non-empty title.  Every article a run returns, and every article   *)
(* stored, has a non-empty url and a title that is non-empty after         *)
(* cleaning; an entry without title or link yields no article and no       *)
(* error in the run's log.                                                 *)
C21_NonEmptyTitle ==
    /\ \A a \in articles : a.url # "" /\ a.title # EmptyTitle
    /\ \A run \in LastRuns :
          /\ \A i \in 1..Len(run.returned) :
                run.returned[i].url # "" /\ run.returned[i].title # EmptyTitle
          /\ \A i \in 1..Len(run.fates) :
                (EntriesSeen(run)[i].title = EmptyTitle
                    \/ EntriesSeen(run)[i].link = "")
                    => /\ run.fates[i] # "collected"
                       /\ run.log.errors = <<>>


(* The article an entry would become is among the articles of list. *)
ArticleOf(entry, list) ==
    \E j \in 1..Len(list) :
        list[j].url = entry.link /\ list[j].title = CleanText(entry.title)

(* The Duplicate Index a run's collector read. *)
RecentOf(run) ==
    _get_recent_articles_data(run.before, run.source, last.at, run.env.lookupOk)

(* C22: Duplicate check ordering.  An entry whose URL or title is in the   *)
(* Duplicate Index is rejected by the URL check or the title check before  *)
(* anything else is done with it: its fate is that of the check, whatever  *)
(* processing would have made of it, and no article of it is returned by   *)
(* the run (filtered) or saved by it (summarized).                         *)
C22_CheckOrdering ==
    \A run \in LastRuns : (run.collected /\ run.env.storageOpens) =>
        \A i \in 1..Len(run.fates) :
            (\/ EntriesSeen(run)[i].link \in RecentOf(run).urls
             \/ NormalizeTitle(EntriesSeen(run)[i].title) \in RecentOf(run).titles)
                => /\ run.fates[i] \in {"url_skipped", "title_skipped"}
                   /\ ~ArticleOf(EntriesSeen(run)[i], run.returned)
                   /\ ~ArticleOf(EntriesSeen(run)[i], run.new_articles)

(* An entry without a title, which processing would drop, is rejected by   *)
(* the URL check.                                                          *)
C22_Witness ==
    \E run \in LastRuns : \E i \in 1..Len(run.fates) :
        /\ run.collected
        /\ EntriesSeen(run)[i].title = EmptyTitle
        /\ run.fates[i] = "url_skipped"


(* C23: Malformed entry isolation.  When processing an entry raises, that  *)
(* entry alone is skipped: every other entry of the payload, before and    *)
(* after it, fares as it does by itself, the articles of the collected     *)
(* ones that pass the filter are returned, and the run completes with a    *)
(* log that is not failed.                                                 *)
C23_EntryIsolation ==
    \A run \in LastRuns :
        (/\ run.collected /\ run.env.storageOpens
         /\ \E i \in 1..Len(EntriesSeen(run)) : EntriesSeen(run)[i].raises) =>
            /\ Len(run.fates) = Len(EntriesSeen(run))
            /\ \A j \in 1..Len(run.fates) :
                  /\ run.fates[j] =
                         EntryFate(EntriesSeen(run)[j], RecentOf(run), run.source)
                  /\ (/\ run.fates[j] = "collected"
                      /\ _should_include_article(
                             _process_entry(EntriesSeen(run)[j], run.source,
                                            last.at, tz),
                             filtering_config, last.at, tz))
                         => ArticleOf(EntriesSeen(run)[j], run.returned)
                  /\ EntriesSeen(run)[j].raises => run.fates[j] # "collected"
            /\ run.log.status = "success"
            /\ run.outcome = "completed"

(* A malformed entry fails between two entries that are collected and      *)
(* saved.                                                                  *)
C23_Witness ==
    \E run \in LastRuns :
        /\ Len(run.fates) = 3
        /\ run.fates[1] = "collected" /\ run.fates[3] = "collected"
        /\ run.fates[2] = "failed"
        /\ ArticleOf(EntriesSeen(run)[1], run.new_articles)
        /\ ArticleOf(EntriesSeen(run)[3], run.new_articles)


(* C24: Tag-suggestion failure.  When the tag-suggestion service is down,  *)
(* every article saved in the cycle has exactly the tags it had before     *)
(* (its source's), the run completes without a failed log, and no article  *)
(* the collector returned is left out of the storage.                      *)
C24_TagFailure ==
    \A run \in LastRuns : (run.collected /\ ~run.env.taggerUp) =>
        /\ \A i \in 1..Len(run.new_articles) :
              run.new_articles[i].tags = run.source.tags
        /\ run.log.status # "failed"
        /\ run.outcome = "completed"
        /\ \A i \in 1..Len(run.returned) : AlreadyStored(articles, run.returned[i])


(* The URLs of the articles the runs of the last cycle newly saved. *)
NewlySavedUrls ==
    UNION {{run.new_articles[i].url : i \in 1..Len(run.new_articles)} :
           run \in LastRuns}

(* C25: Notification content.  The notification sink is called exactly     *)
(* when the cycle newly saved an article; the list it is handed is the     *)
(* list of the articles newly saved in the cycle, none of them a row that  *)
(* was stored before the cycle; and when the post fails the saved          *)
(* articles and the logs of the cycle's runs are still in the storage.     *)
C25_Notification ==
    last.ran =>
        /\ last.posted.called <=> last.total_new_articles > 0
        /\ last.posted.called =>
              /\ {a.url : a \in last.posted.articles} = NewlySavedUrls
              /\ last.posted.articles \cap last.before = {}
        /\ ~last.posted.ok =>
              /\ \A u \in NewlySavedUrls : get_article_by_url(articles, u) # {}
              /\ Len(collection_logs) - last.logs_before
                     = Cardinality({k \in 1..Len(last.runs) :
                                       last.runs[k].logSaved})


(* C26: Source counters.  After every run whose log was recorded, the      *)
(* stored source has its collection_count increased by exactly 1 and its   *)
(* last_collected set to the time of the run; its error_count is           *)
(* increased by 1 when the log's status is failed and is 0 otherwise.      *)
C26_SourceCounters ==
    \A run \in LastRuns : run.logSaved =>
        \E s \in sources :
            /\ s.name = run.source.name
            /\ s.collection_count = run.source.collection_count + 1
            /\ s.last_collected = DatetimeNow(last.at, tz)
            /\ s.error_count = IF run.log.status = "failed"
                               THEN run.source.error_count + 1 ELSE 0


(* C27: Run buffering.  The step in which a source's collector runs        *)
(* (collect_with_logging), whether it ends in a success log or a failed    *)
(* log, leaves the stored articles as they were: no row is inserted,       *)
(* replaced or deleted, and no id is handed out.                           *)
C27_RunBuffering ==
    [][\A p \in Procs :
          (/\ Me(p).pc = "source" /\ Me(p).k <= Len(Me(p).list)
           /\ procs'[p] # procs[p])
              => articles' = articles /\ nextArticleId' = nextArticleId]_vars

(* Over a storage that holds articles, a collector has run and failed.     *)
C27_Witness ==
    /\ articles # {}
    /\ \E p \in Procs : Me(p).pc = "check" /\ Me(p).log.status = "failed"


(* C28: RunOutcome referential integrity.  The source_id of every stored   *)
(* log is the id of a source in storage, and a cycle leaves every source   *)
(* under the id it had before the cycle.                                   *)
C28_ReferentialIntegrity ==
    /\ \A j \in 1..Len(collection_logs) :
          \E s \in sources : s.id = collection_logs[j].source_id
    /\ last.ran =>
          \A k \in 1..Len(last.selected) :
              \E s \in sources : /\ s.name = last.selected[k].name
                                 /\ s.id = last.selected[k].id

---------------------------------------------------------------------------
(* The scheduler: AINewsBot.setup_scheduler, and the jobs it adds.  A job   *)
(* of config['schedule']['jobs'] is [name, cron_ok, task, retention_days,   *)
(* languages]: cron_ok says that CronTrigger.from_crontab accepts its cron  *)
(* expression, retention_days is the set holding the value of that key     *)
(* (empty when the key is absent).  The function added for a job is a       *)
(* lambda without arguments: it reads the locals retention_days and         *)
(* languages of setup_scheduler when it is called, and jobs are called      *)
(* only after setup_scheduler has returned (scheduler.start()).             *)
DefaultRetentionDays == 30

JobConfig(name, task, retention_days, languages) ==
    [name |-> name, cron_ok |-> TRUE, task |-> task,
     retention_days |-> retention_days, languages |-> languages]

Schedules ==
    LET morning == JobConfig("morning", "collect_news", {}, <<"english">>)
        evening == JobConfig("evening", "collect_news", {}, <<"japanese">>)
        full    == JobConfig("full", "collect_news", {}, <<"english", "japanese">>)
        weekly  == JobConfig("weekly", "cleanup_old_articles", {1}, <<>>)
        monthly == JobConfig("monthly", "cleanup_old_articles", {2}, <<>>)
        yearly  == JobConfig("yearly", "cleanup_old_articles", {}, <<>>)
        broken  == [evening EXCEPT !.name = "broken", !.cron_ok = FALSE]
    IN  {[enabled |-> FALSE, jobs |-> <<morning, weekly>>]}
        \cup {[enabled |-> TRUE, jobs |-> jobs] :
              jobs \in {<<morning>>, <<morning, weekly>>, <<full, weekly>>,
                        <<morning, evening>>, <<weekly, monthly>>,
                        <<weekly, yearly>>, <<morning, broken>>,
                        <<evening, monthly, morning, weekly>>}}

(* DatabaseManager.cleanup_old_articles: DELETE FROM articles WHERE         *)
(* collected_date < datetime('now', '-N days').                             *)
cleanup_old_articles(arts, days, nowUtc) ==
    {r \in arts : InWindow(r, days, nowUtc)}

(* One iteration of the loop of setup_scheduler.  The locals are bound     *)
(* before add_job is called; a cron expression that is refused raises       *)
(* inside the call, and the job is not added.                               *)
AddJob ==
    /\ scheduler.enabled /\ ~scheduler.started
    /\ scheduler.k < Len(scheduler.jobs)
    /\ \E job_config \in {scheduler.jobs[scheduler.k + 1]} :
       \E cleanup \in {job_config.task = "cleanup_old_articles"} :
          scheduler' =
            [scheduler EXCEPT
               !.k = @ + 1,
               !.retention_days =
                    IF ~cleanup THEN @
                    ELSE IF job_config.retention_days = {}
                         THEN DefaultRetentionDays
                         ELSE Only(job_config.retention_days),
               !.languages = IF cleanup THEN @ ELSE job_config.languages,
               !.added = IF job_config.cron_ok
                         THEN @ \cup {[name |-> job_config.name,
                                       cleanup |-> cleanup]}
                         ELSE @]
    /\ UNCHANGED <<now, tz, filtering_config, articles, nextArticleId, sources,
                   nextSourceId, collection_logs, cycles, last, procs, probe,
                   fetcher, socket>>

(* setup_scheduler has returned (at once when the schedule is disabled),    *)
(* and the scheduler is started.                                            *)
StartScheduler ==
    /\ ~scheduler.started
    /\ ~scheduler.enabled \/ scheduler.k = Len(scheduler.jobs)
    /\ scheduler' = [scheduler EXCEPT !.started = TRUE]
    /\ UNCHANGED <<now, tz, filtering_config, articles, nextArticleId, sources,
                   nextSourceId, collection_logs, cycles, last, procs, probe,
                   fetcher, socket>>

(* A cleanup job fires: lambda: self.cleanup_old_articles(retention_days). *)
FireCleanup(job) ==
    /\ scheduler.started /\ job.cleanup
    /\ articles' = cleanup_old_articles(articles, scheduler.retention_days, now)
    /\ scheduler' = [scheduler EXCEPT
                       !.cleaned = [job |-> job.name,
                                    days |-> scheduler.retention_days]]
    /\ UNCHANGED <<now, tz, filtering_config, nextArticleId, sources,
                   nextSourceId, collection_logs, cycles, last, procs, probe,
                   fetcher, socket>>

(* A collection job fires:                                                  *)
(* lambda: self.scheduled_collection(sources, languages).                   *)
FireCollection(job) ==
    /\ scheduler.started /\ ~job.cleanup
    /\ scheduler.queue = <<>>
    /\ scheduler' = [scheduler EXCEPT !.job = job.name,
                                      !.queue = scheduler.languages,
                                      !.ran = <<>>]
    /\ UNCHANGED <<now, tz, filtering_config, articles, nextArticleId, sources,
                   nextSourceId, collection_logs, cycles, last, procs, probe,
                   fetcher, socket>>

(* scheduled_collection: one iteration of its loop over the languages.      *)
scheduled_collection(envOf) ==
    /\ scheduler.queue # <<>>
    /\ collect_news(Head(scheduler.queue), envOf, TRUE)
    /\ scheduler' = [scheduler EXCEPT !.queue = Tail(@),
                                      !.ran = Append(@, Head(scheduler.queue))]
    /\ UNCHANGED <<now, tz, filtering_config, procs, probe, fetcher, socket>>

SchedEnvs ==
    {[n \in {FeedA, FeedB, SiteC} |->
         IF n = FeedA THEN Env(f) ELSE IF n = FeedB THEN Env(PayloadB)
         ELSE Env(<<>>)] : f \in SeqsUpTo(EntriesA, 1)}

InitSched ==
    /\ now = 0
    /\ tz = 0
    /\ filtering_config = DefaultFiltering
    /\ articles = {}
    /\ nextArticleId = 1
    /\ sources = InitialSources
    /\ nextSourceId = 4
    /\ collection_logs = <<>>
    /\ cycles = 0
    /\ last = NoCycle
    /\ procs = [p \in Procs |-> Idle]
    /\ probe = NoProbe
    /\ fetcher = NoRequest
    /\ scheduler \in {[NoScheduler EXCEPT !.enabled = schedule_config.enabled,
                                          !.jobs = schedule_config.jobs] :
                      schedule_config \in Schedules}
    /\ socket = NoSocket

NextSched ==
    \/ AddJob
    \/ StartScheduler
    \/ \E job \in scheduler.added : FireCleanup(job)
    \/ \E job \in scheduler.added : FireCollection(job)
    \/ \E envOf \in SchedEnvs : scheduled_collection(envOf)
    \/ \E t \in ClockPoints : Tick(t)

SpecSched == InitSched /\ [][NextSched]_vars

(* The job of the configuration that has the given name. *)
ConfiguredJob(name) ==
    Only({scheduler.jobs[i] : i \in {i \in 1..Len(scheduler.jobs) :
                                         scheduler.jobs[i].name = name}})

(* C29: Scheduled job binding.  A collection job that has fired runs        *)
(* collect_news for the languages configured for that job, in their order   *)
(* and for no other, and a cleanup job that has fired has deleted with the  *)
(* retention_days configured for that job (30 when it has none), whatever   *)
(* jobs are configured after it.                                            *)
C29_JobBinding ==
    /\ scheduler.job # NoJob =>
          scheduler.ran \o scheduler.queue
              = ConfiguredJob(scheduler.job).languages
    /\ scheduler.cleaned.job # NoJob =>
          \E job_config \in {ConfiguredJob(scheduler.cleaned.job)} :
             scheduler.cleaned.days =
                IF job_config.retention_days = {} THEN DefaultRetentionDays
                ELSE Only(job_config.retention_days)

---------------------------------------------------------------------------
(* Socket mode: AINewsSlackBot._handle_socket_request, the only listener    *)
(* of the socket client (start_socket_mode clears the others).  A request  *)
(* is [type, envelope_id, payload]; a payload is a dict with the keys       *)
(* command and event, or something that is not a dict.  The environment of  *)
(* a request says whether _generate_ai_news_response raises and whether     *)
(* the connection takes the responses sent (send_socket_mode_response       *)
(* raises when it does not).                                                *)
MaxRequests == 2

NoPayload == [is_dict |-> FALSE, command |-> "", event |-> "none"]

Payloads ==
    {NoPayload}
    \cup [is_dict : {TRUE}, command : {"/ai-news", "/other"},
          event : {"message", "none"}]

SocketModeRequests ==
    [type : {"slash_commands", "events_api", "interactive"},
     envelope_id : {"e1", "e2"}, payload : Payloads]

SocketEnvs == [generatorRaises : BOOLEAN, connected : BOOLEAN]

SocketModeResponse(envelope_id, payload) ==
    [envelope_id |-> envelope_id, payload |-> payload]

(* client.send_socket_mode_response(response): what is delivered, and       *)
(* whether the call raises.                                                 *)
send_socket_mode_response(response, env) ==
    IF env.connected THEN [sent |-> <<response>>, raised |-> FALSE]
    ELSE [sent |-> <<>>, raised |-> TRUE]

(* Lines 87-121.  req.payload.get raises on a payload that is not a dict;   *)
(* a failure of the response generator becomes the text of the response; a *)
(* failure of the send is logged.                                           *)
_handle_slash_command_with_response(req, env) ==
    IF ~req.payload.is_dict THEN [sent |-> <<>>, raised |-> TRUE]
    ELSE \* the text: of the news, of the error, or "Unknown command"
         LET response_text ==
                 IF req.payload.command = "/ai-news"
                 THEN IF env.generatorRaises THEN "error" ELSE "news"
                 ELSE "Unknown command"
         IN  [send_socket_mode_response(
                  SocketModeResponse(req.envelope_id, response_text), env)
              EXCEPT !.raised = FALSE]

(* Lines 135-147: reads the event and its type, sends nothing.  event.get   *)
(* raises when the payload holds event: null.                               *)
_handle_event(req) ==
    [sent |-> <<>>,
     raised |-> ~req.payload.is_dict \/ req.payload.event = "none"]

(* Lines 67-85: the dispatch on req.type, and the acknowledgement sent by   *)
(* the except branch.                                                       *)
_handle_socket_request(req, env) ==
    LET ack == SocketModeResponse(req.envelope_id, "")
        tried == IF req.type = "slash_commands"
                 THEN _handle_slash_command_with_response(req, env)
                 ELSE IF req.type = "events_api"
                 THEN _handle_event(req)
                 ELSE send_socket_mode_response(ack, env)
    IN  IF ~tried.raised THEN tried
        ELSE [send_socket_mode_response(ack, env)
              EXCEPT !.sent = tried.sent \o @]

(* A request arrives and the listener runs to its end. *)
HandleSocketRequest(req, env) ==
    /\ Len(socket.handled) < MaxRequests
    /\ \E done \in {_handle_socket_request(req, env)} :
          socket' = [socket EXCEPT
                        !.handled = Append(@, [req |-> req,
                                               connected |-> env.connected,
                                               sent |-> done.sent,
                                               raised |-> done.raised])]
    /\ UNCHANGED <<now, tz, filtering_config, articles, nextArticleId, sources,
                   nextSourceId, collection_logs, cycles, last, procs, probe,
                   fetcher, scheduler>>

NextSocket ==
    \E req \in SocketModeRequests : \E env \in SocketEnvs :
        HandleSocketRequest(req, env)

SpecSocket == Init /\ [][NextSocket]_vars

(* C30: Socket request acknowledgement.  Every request that the listener    *)
(* has handled over a connection that takes responses, of whatever type    *)
(* and whether or not its handler raised, has been answered with exactly    *)
(* one response, and that response carries the request's envelope_id.       *)
C30_Acknowledged ==
    \A i \in 1..Len(socket.handled) :
        socket.handled[i].connected =>
            /\ Len(socket.handled[i].sent) = 1
            /\ socket.handled[i].sent[1].envelope_id
                   = socket.handled[i].req.envelope_id

====
